---- MODULE Spec2Model ----
(***************************************************************************)
(* Model of the daily IPO monitor (src/main.py): the price normaliser      *)
(* parse_price_range, the offer calculator compute_offer and the run()     *)
(* pipeline (fetch, per-record filter, report, error handler).             *)
(*                                                                         *)
(* Python values are modelled as records [t, s, n]: t is the type tag      *)
(* ("none", "str", "num"), s the characters of a string, n the value of a  *)
(* number.  Strings are sequences of one-character strings.                *)
(***************************************************************************)
EXTENDS Integers, Sequences, FiniteSets, TLC

\* ---------------------------------------------------------------- bounds
MaxLen == 5
MaxRecords == 2

\* ------------------------------------------------------- program constants
THRESHOLD_USD == 200000000

\* ------------------------------------------------------------ Python values
None == [t |-> "none", s |-> <<>>, n |-> 0]
Str(chars) == [t |-> "str", s |-> chars, n |-> 0]
Num(k) == [t |-> "num", s |-> <<>>, n |-> k]

DigitChars == <<"0", "1", "2", "3", "4", "5", "6", "7", "8", "9">>

\* the value of each digit character
DigitOf == [c \in {DigitChars[d] : d \in 1..10} |->
               (CHOOSE d \in 1..10 : DigitChars[d] = c) - 1]

IsDigit(c) == c \in DOMAIN DigitOf

DigitVal(c) == DigitOf[c]

\* str(n) of a non-negative integer
RECURSIVE Digits(_)
Digits(k) ==
    IF k < 10 THEN <<DigitChars[k + 1]>>
    ELSE Digits(k \div 10) \o <<DigitChars[(k % 10) + 1]>>

\* str(x): the characters of a string, the decimal digits of a number
PyStr(v) ==
    CASE v.t = "str" -> v.s
      [] v.t = "num" -> Digits(v.n)
      [] OTHER -> <<"N", "o", "n", "e">>

\* truthiness of a value: None, "" and 0 are falsy
Truthy(v) ==
    CASE v.t = "str" -> v.s # <<>>
      [] v.t = "num" -> v.n # 0
      [] OTHER -> FALSE

\* str.strip(): removes leading and trailing whitespace
RECURSIVE LStrip(_)
LStrip(s) == IF s # <<>> /\ Head(s) = " " THEN LStrip(Tail(s)) ELSE s

RECURSIVE RStrip(_)
RStrip(s) ==
    IF s # <<>> /\ s[Len(s)] = " " THEN RStrip(SubSeq(s, 1, Len(s) - 1)) ELSE s

Strip(s) == RStrip(LStrip(s))

\* str.replace(c, ""): removes every occurrence of the character c
Remove(s, c) == SelectSeq(s, LAMBDA x : x # c)

\* str.split(sep): the fragments between occurrences of sep, empty ones kept
RECURSIVE Split(_, _)
Split(s, sep) ==
    IF \A i \in 1..Len(s) : s[i] # sep THEN <<s>>
    ELSE LET k == CHOOSE i \in 1..Len(s) :
                      s[i] = sep /\ \A j \in 1..(i - 1) : s[j] # sep
         IN  <<SubSeq(s, 1, k - 1)>> \o Split(SubSeq(s, k + 1, Len(s)), sep)

\* sub in s
Contains(s, sub) ==
    \E i \in 1..(Len(s) - Len(sub) + 1) : SubSeq(s, i, i + Len(sub) - 1) = sub

\* value of a non-empty sequence of decimal digits
RECURSIVE DecValue(_)
DecValue(s) ==
    IF s = <<>> THEN 0
    ELSE 10 * DecValue(SubSeq(s, 1, Len(s) - 1)) + DigitVal(s[Len(s)])

\* float(s) of a string: surrounding whitespace is ignored, the rest must be
\* a number; over the characters of the model (digits, "-" never reaches
\* float inside a fragment, "$", " ", letters) that is a non-empty run of
\* digits.  ok = FALSE stands for ValueError.
FloatOfStr(s) ==
    LET u == Strip(s)
    IN  IF u # <<>> /\ \A i \in 1..Len(u) : IsDigit(u[i])
        THEN [ok |-> TRUE, val |-> DecValue(u)]
        ELSE [ok |-> FALSE, val |-> 0]

\* float(x) of a value: ok = FALSE stands for TypeError (None) or ValueError
PyFloat(v) ==
    CASE v.t = "num" -> [ok |-> TRUE, val |-> v.n]
      [] v.t = "str" -> FloatOfStr(v.s)
      [] OTHER -> [ok |-> FALSE, val |-> 0]

\* ------------------------------------------------------ parse_price_range
\* Result of a call: exc = "none" and the pair (low, high), or the exception
\* that leaves the function.
Returns(low, high) == [exc |-> "none", low |-> low, high |-> high]
Raises(e) == [exc |-> e, low |-> 0, high |-> 0]

\* parts = [p.strip() for p in s.split("-") if p.strip()]
Parts(s) ==
    LET raw == Split(s, "-")
        stripped == [i \in 1..Len(raw) |-> Strip(raw[i])]
    IN  SelectSeq(stripped, LAMBDA p : p # <<>>)

\* variant: the upper bound is taken from the last fragment, not the second
parse_price_range_last(price_raw) ==
    IF price_raw.t = "none" THEN Returns(0, 0)
    ELSE LET s == Remove(Strip(PyStr(price_raw)), "$")
         IN  IF s = <<>> \/ s = <<"-">> THEN Returns(0, 0)
             ELSE IF Contains(s, <<"-">>)
             THEN LET parts == Parts(s)
                  IN  IF Len(parts) >= 2
                      THEN LET low == FloatOfStr(parts[1])
                               high == FloatOfStr(parts[Len(parts)])
                           IN  IF low.ok /\ high.ok
                               THEN Returns(low.val, high.val)
                               ELSE Returns(0, 0)
                      ELSE IF Len(parts) = 0
                      THEN Raises("IndexError")
                      ELSE LET v == FloatOfStr(parts[Len(parts)])
                           IN  IF v.ok THEN Returns(v.val, v.val)
                               ELSE Returns(0, 0)
             ELSE LET v == FloatOfStr(s)
                  IN  IF v.ok THEN Returns(v.val, v.val) ELSE Returns(0, 0)

parse_price_range(price_raw) ==
    IF price_raw.t = "none" THEN Returns(0, 0)
    ELSE LET s == Remove(Strip(PyStr(price_raw)), "$")
         IN  IF s = <<>> \/ s = <<"-">> THEN Returns(0, 0)
             ELSE IF Contains(s, <<"-">>)
             THEN LET parts == Parts(s)
                  IN  IF Len(parts) >= 2
                      THEN LET low == FloatOfStr(parts[1])
                               high == FloatOfStr(parts[2])
                           IN  IF low.ok /\ high.ok
                               THEN Returns(low.val, high.val)
                               ELSE Returns(0, 0)
                      ELSE IF Len(parts) = 0
                      THEN Raises("IndexError")
                      ELSE LET v == FloatOfStr(parts[Len(parts)])
                           IN  IF v.ok THEN Returns(v.val, v.val)
                               ELSE Returns(0, 0)
             ELSE LET v == FloatOfStr(s)
                  IN  IF v.ok THEN Returns(v.val, v.val) ELSE Returns(0, 0)

\* ----------------------------------------------------------- compute_offer
compute_offer(price_raw, shares) ==
    LET f == PyFloat(shares)
        shares_f == IF shares.t # "none" /\ f.ok THEN f.val ELSE 0
        p == parse_price_range(price_raw)
    IN  IF p.exc # "none" THEN Raises(p.exc)
        ELSE Returns(p.low * shares_f, p.high * shares_f)

\* ------------------------------------------------------- listing records
\* A record of the calendar is a mapping from the keys below to values; a key
\* the provider left out holds Missing, and dict.get(key, default) is Get.
Missing == [t |-> "missing", s |-> <<>>, n |-> 0]

Get(ipo, key, default) == IF ipo[key].t = "missing" THEN default ELSE ipo[key]

NA == Str(<<"N", "/", "A">>)

UpperChars == <<"A", "B", "C", "D", "E", "F", "G", "H", "I", "J", "K", "L", "M",
                "N", "O", "P", "Q", "R", "S", "T", "U", "V", "W", "X", "Y", "Z">>
LowerChars == <<"a", "b", "c", "d", "e", "f", "g", "h", "i", "j", "k", "l", "m",
                "n", "o", "p", "q", "r", "s", "t", "u", "v", "w", "x", "y", "z">>

\* the lower-case letter of each upper-case letter
LowerOf == [c \in {UpperChars[k] : k \in 1..26} |->
               LowerChars[CHOOSE k \in 1..26 : UpperChars[k] = c]]

\* str.lower()
Lower(s) ==
    [i \in 1..Len(s) |-> IF s[i] \in DOMAIN LowerOf THEN LowerOf[s[i]] ELSE s[i]]

NASDAQ == <<"N", "A", "S", "D", "A", "Q">>
NYSE == <<"N", "Y", "S", "E">>
EXPECTED == <<"e", "x", "p", "e", "c", "t", "e", "d">>
PRICED == <<"p", "r", "i", "c", "e", "d">>

\* x in (None, "")
IsNoneOrEmpty(v) == v.t = "none" \/ (v.t = "str" /\ v.s = <<>>)

\* x in (None, "", "-")
IsNoneEmptyOrDash(v) == IsNoneOrEmpty(v) \/ (v.t = "str" /\ v.s = <<"-">>)

\* ------------------------------------------------- one iteration of the loop
\* The formatted block of an admitted record, field by field.
Entry(symbol, name, exchange, status, price, shares_int, offer, total) ==
    [symbol |-> symbol, name |-> name, exchange |-> exchange,
     status |-> status, price |-> price, shares_int |-> shares_int,
     offer |-> offer, total |-> total]

NoEntry == Entry(None, None, None, None, None, None, None, None)

Skip == [kind |-> "skip", entry |-> NoEntry, exc |-> "none"]
Admit(e) == [kind |-> "admit", entry |-> e, exc |-> "none"]
Throw(x) == [kind |-> "raise", entry |-> NoEntry, exc |-> x]

\* The body of `for ipo in ipos`: the record is skipped (continue, or the
\* offer is not above the threshold), admitted with its formatted block, or
\* an exception leaves the iteration.
EvalRecord(ipo, day) ==
    LET ipo_date == Get(ipo, "date", NA)
        symbol == Get(ipo, "symbol", None)
        name == Get(ipo, "name", NA)
        exchange == Get(ipo, "exchange", NA)
        status_raw == Get(ipo, "status", NA)
        price_raw == Get(ipo, "price", None)
        shares == Get(ipo, "numberOfShares", None)
        status == IF Truthy(status_raw) THEN Lower(status_raw.s) ELSE <<>>
    IN  IF Truthy(status_raw) /\ status_raw.t # "str" THEN Throw("AttributeError")
        ELSE IF ~(ipo_date.t = "str" /\ ipo_date.s = <<day>>) THEN Skip
        ELSE IF status \notin {EXPECTED, PRICED} THEN Skip
        ELSE IF ~Truthy(exchange)
                \/ (~Contains(PyStr(exchange), NASDAQ)
                    /\ ~Contains(PyStr(exchange), NYSE)) THEN Skip
        ELSE IF ~Truthy(symbol) \/ IsNoneEmptyOrDash(price_raw)
                \/ IsNoneOrEmpty(shares) THEN Skip
        ELSE LET o == compute_offer(price_raw, shares)
             IN  IF o.exc # "none" THEN Throw(o.exc)
                 ELSE IF ~(o.high > THRESHOLD_USD) THEN Skip
                 ELSE LET finnhub_total == Get(ipo, "totalSharesValue", None)
                          sf == PyFloat(shares)
                          tf == PyFloat(finnhub_total)
                      IN  IF ~sf.ok THEN Throw("ValueError")
                          ELSE IF Truthy(finnhub_total) /\ ~tf.ok
                          THEN Throw("ValueError")
                          ELSE Admit(Entry(symbol, name, exchange, Str(status),
                                           price_raw, Num(sf.val), Num(o.high),
                                           IF Truthy(finnhub_total)
                                           THEN Num(tf.val) ELSE NA))

\* The whole loop over a fetched sequence, from the matches collected so far:
\* the final list of matches, or the exception that ended the loop.
RECURSIVE RunLoop(_, _, _)
RunLoop(recs, day, acc) ==
    IF recs = <<>> THEN [exc |-> "none", matches |-> acc]
    ELSE LET out == EvalRecord(Head(recs), day)
         IN  CASE out.kind = "raise" -> [exc |-> out.exc, matches |-> acc]
               [] out.kind = "admit" ->
                      RunLoop(Tail(recs), day, Append(acc, out.entry))
               [] OTHER -> RunLoop(Tail(recs), day, acc)

\* -------------------------------------------------------------- the report
Line(kind, entry) == [kind |-> kind, entry |-> entry]

\* variant: a separator after every block, the last one included
RECURSIVE Join_trailing(_)
Join_trailing(blocks) ==
    IF blocks = <<>> THEN <<>>
    ELSE <<Line("block", blocks[1]), Line("separator", NoEntry)>>
         \o Join_trailing(Tail(blocks))

\* sep.join(blocks), as the sequence of blocks and separator lines
RECURSIVE Join(_)
Join(blocks) ==
    IF blocks = <<>> THEN <<>>
    ELSE IF Len(blocks) = 1 THEN <<Line("block", blocks[1])>>
    ELSE <<Line("block", blocks[1]), Line("separator", NoEntry)>>
         \o Join(Tail(blocks))

\* subject of the success report: the date and the count, or "No tickers"
ReportSubject(day, ms) ==
    IF ms # <<>>
    THEN [kind |-> "tickers", date |-> day, n |-> Len(ms)]
    ELSE [kind |-> "no tickers", date |-> day, n |-> 0]

ReportBody(ms) ==
    IF ms # <<>>
    THEN <<Line("header", NoEntry)>> \o Join(ms)
    ELSE <<Line("success sentence", NoEntry)>>

ErrorSubject(day) == [kind |-> "error", date |-> day, n |-> 0]

ErrorBody(e) == <<Line(e.type, NoEntry)>>

\* ------------------------------------------------------------------ state
VARIABLES
    pc,         \* position of run(): config, fetch, loop, send, handler,
                \* reraise, done (returned) or failed (an exception left run)
    today,      \* dubai_today_iso()
    ipos,       \* the sequence returned by fetch_ipos
    idx,        \* number of records of ipos the loop has evaluated
    matches,    \* the list of formatted blocks of the admitted records
    subject,    \* subject of the success report once built
    body,       \* body of the success report once built
    outbox,     \* every call of send_email so far, in order, with its outcome
    exc,        \* the exception caught by `except Exception as e`
    raised,     \* the exception that left run()
    call,       \* pure-function harness: which function has been called
    price_in,   \* pure-function harness: the raw price argument
    shares_in,  \* pure-function harness: the raw share-count argument
    result      \* pure-function harness: what the call returned or raised

runVars == <<pc, today, ipos, idx, matches, subject, body, outbox, exc, raised>>
fnVars == <<call, price_in, shares_in, result>>
vars == <<pc, today, ipos, idx, matches, subject, body, outbox, exc, raised,
          call, price_in, shares_in, result>>

NoExc == [type |-> "none", at |-> "none"]
Exc(type, at) == [type |-> type, at |-> at]

\* one call of send_email and whether it returned (ok) or raised
Sent(kind, subj, bdy, ok) ==
    [kind |-> kind, subject |-> subj, body |-> bdy, ok |-> ok]

NoSubject == [kind |-> "unset", date |-> "", n |-> 0]

\* ------------------------------------------------------ inputs of the model
\* the date dubai_today_iso returns, and the dates listings carry
Today == "2024-01-15"
Dates == {Today, "2024-01-16"}

Chars(n) == Digits(n)

\* an admitted listing: 2 x 200,000,000 = 400,000,000 > THRESHOLD_USD
BaseRecord(day) ==
    [date |-> Str(<<day>>),
     symbol |-> Str(<<"A", "A", "A">>),
     name |-> Str(<<"A", "c", "m", "e">>),
     exchange |-> Str(NASDAQ \o <<" ", "G", "S">>),
     status |-> Str(<<"P", "r", "i", "c", "e", "d">>),
     price |-> Str(<<"1", "-", "2">>),
     numberOfShares |-> Num(200000000),
     totalSharesValue |-> None]

FieldValues ==
    [date |-> {Missing},
     symbol |-> {None},
     name |-> {Missing},
     exchange |-> {Str(NYSE), Str(<<"n", "a", "s", "d", "a", "q">>)},
     status |-> {Str(EXPECTED), Str(<<"w", "i", "t", "h", "d", "r", "a", "w", "n">>),
                 None},
     price |-> {None, Str(<<>>), Str(<<"-">>), Str(<<"-", "-">>), Str(<<"1">>),
                Str(<<"x">>), Str(<<"$", "1", "-", "$", "2">>)},
     numberOfShares |-> {None, Str(<<"x">>), Num(100000000),
                         Str(Chars(200000000))},
     totalSharesValue |-> {Num(0), Num(400000000), Str(<<"x">>), Missing}]

\* the listings the provider may return: the admitted listing for each date,
\* and every listing that differs from it in one field
Records ==
    {BaseRecord(d) : d \in Dates}
    \cup UNION {{[BaseRecord(Today) EXCEPT ![k] = v] :
                     v \in FieldValues[k]} : k \in DOMAIN FieldValues}

RecordSeqs == UNION {[1..k -> Records] : k \in 0..MaxRecords}

Alphabet == {"1", "2", "-", "$", " ", "x"}

Strings == UNION {[1..k -> Alphabet] : k \in 0..MaxLen}

PriceInputs == {None} \cup {Num(k) : k \in {0, 2, 12}} \cup {Str(s) : s \in Strings}

SharesInputs ==
    {None, Str(<<>>), Str(<<"x">>), Str(<<" ", "3">>), Num(0), Num(1000)}

\* ---------------------------------------------------------------- run()
RunInit ==
    /\ pc = "config"
    /\ today = Today
    /\ ipos = <<>>
    /\ idx = 0
    /\ matches = <<>>
    /\ subject = NoSubject
    /\ body = <<>>
    /\ outbox = <<>>
    /\ exc = NoExc
    /\ raised = NoExc

FnIdle ==
    /\ call = "idle"
    /\ price_in = None
    /\ shares_in = None
    /\ result = Returns(0, 0)

Init == RunInit /\ FnIdle

\* require_env x 3 and dubai_today_iso succeed
ConfigLoaded ==
    /\ pc = "config"
    /\ pc' = "fetch"
    /\ UNCHANGED <<today, ipos, idx, matches, subject, body, outbox, exc, raised>>
    /\ UNCHANGED fnVars

\* require_env raises RuntimeError, before the try block
ConfigMissing ==
    /\ pc = "config"
    /\ pc' = "failed"
    /\ raised' = Exc("RuntimeError", "config")
    /\ UNCHANGED <<today, ipos, idx, matches, subject, body, outbox, exc>>
    /\ UNCHANGED fnVars

\* fetch_ipos returns the calendar; matches = []
FetchOk ==
    /\ pc = "fetch"
    /\ ipos' \in RecordSeqs
    /\ idx' = 0
    /\ matches' = <<>>
    /\ pc' = "loop"
    /\ UNCHANGED <<today, subject, body, outbox, exc, raised>>
    /\ UNCHANGED fnVars

\* fetch_ipos raises (transport error, HTTP status, bad JSON)
FetchFail ==
    /\ pc = "fetch"
    /\ exc' = Exc("RequestException", "fetch")
    /\ pc' = "handler"
    /\ UNCHANGED <<today, ipos, idx, matches, subject, body, outbox, raised>>
    /\ UNCHANGED fnVars

\* variant: every admitted record is mailed on its own inside the loop
LoopStep_mailsEach ==
    /\ pc = "loop"
    /\ idx < Len(ipos)
    /\ LET out == EvalRecord(ipos[idx + 1], today)
       IN  /\ idx' = idx + 1
           /\ matches' = IF out.kind = "admit"
                         THEN Append(matches, out.entry) ELSE matches
           /\ outbox' = IF out.kind = "admit"
                        THEN Append(outbox,
                                    Sent("report", ReportSubject(today, <<out.entry>>),
                                         ReportBody(<<out.entry>>), TRUE))
                        ELSE outbox
           /\ exc' = IF out.kind = "raise" THEN Exc(out.exc, "record") ELSE exc
           /\ pc' = IF out.kind = "raise" THEN "handler" ELSE "loop"
    /\ UNCHANGED <<today, ipos, subject, body, raised>>
    /\ UNCHANGED fnVars

\* one iteration of `for ipo in ipos`
LoopStep ==
    /\ pc = "loop"
    /\ idx < Len(ipos)
    /\ LET out == EvalRecord(ipos[idx + 1], today)
       IN  /\ idx' = idx + 1
           /\ matches' = IF out.kind = "admit"
                         THEN Append(matches, out.entry) ELSE matches
           /\ exc' = IF out.kind = "raise" THEN Exc(out.exc, "record") ELSE exc
           /\ pc' = IF out.kind = "raise" THEN "handler" ELSE "loop"
    /\ UNCHANGED <<today, ipos, subject, body, outbox, raised>>
    /\ UNCHANGED fnVars

\* the loop is over: build subject and body
BuildReport ==
    /\ pc = "loop"
    /\ idx = Len(ipos)
    /\ subject' = ReportSubject(today, matches)
    /\ body' = ReportBody(matches)
    /\ pc' = "send"
    /\ UNCHANGED <<today, ipos, idx, matches, outbox, exc, raised>>
    /\ UNCHANGED fnVars

\* send_email(subject, body, ...) returns; run() returns
SendReportOk ==
    /\ pc = "send"
    /\ outbox' = Append(outbox, Sent("report", subject, body, TRUE))
    /\ pc' = "done"
    /\ UNCHANGED <<today, ipos, idx, matches, subject, body, exc, raised>>
    /\ UNCHANGED fnVars

\* send_email(subject, body, ...) raises
SendReportFail ==
    /\ pc = "send"
    /\ outbox' = Append(outbox, Sent("report", subject, body, FALSE))
    /\ exc' = Exc("SMTPException", "send report")
    /\ pc' = "handler"
    /\ UNCHANGED <<today, ipos, idx, matches, subject, body, raised>>
    /\ UNCHANGED fnVars

\* except Exception as e: the error email is delivered
ErrorEmailOk ==
    /\ pc = "handler"
    /\ outbox' = Append(outbox, Sent("error", ErrorSubject(today), ErrorBody(exc), TRUE))
    /\ pc' = "reraise"
    /\ UNCHANGED <<today, ipos, idx, matches, subject, body, exc, raised>>
    /\ UNCHANGED fnVars

\* variant: no inner try, the failure of the error email leaves run()
ErrorEmailFail_propagates ==
    /\ pc = "handler"
    /\ outbox' = Append(outbox, Sent("error", ErrorSubject(today), ErrorBody(exc), FALSE))
    /\ raised' = Exc("SMTPException", "send error")
    /\ pc' = "failed"
    /\ UNCHANGED <<today, ipos, idx, matches, subject, body, exc>>
    /\ UNCHANGED fnVars

\* except Exception as e: send_email raises, `except: pass` swallows it
ErrorEmailFail ==
    /\ pc = "handler"
    /\ outbox' = Append(outbox, Sent("error", ErrorSubject(today), ErrorBody(exc), FALSE))
    /\ pc' = "reraise"
    /\ UNCHANGED <<today, ipos, idx, matches, subject, body, exc, raised>>
    /\ UNCHANGED fnVars

\* the bare `raise` at the end of the handler
Reraise ==
    /\ pc = "reraise"
    /\ raised' = exc
    /\ pc' = "failed"
    /\ UNCHANGED <<today, ipos, idx, matches, subject, body, outbox, exc>>
    /\ UNCHANGED fnVars

Next ==
    \/ ConfigLoaded
    \/ ConfigMissing
    \/ FetchOk
    \/ FetchFail
    \/ LoopStep
    \/ BuildReport
    \/ SendReportOk
    \/ SendReportFail
    \/ ErrorEmailOk
    \/ ErrorEmailFail
    \/ Reraise

Spec == Init /\ [][Next]_vars

\* ------------------------------------------- calls of the pure functions
RunIdle ==
    /\ pc = "idle"
    /\ today = Today
    /\ ipos = <<>>
    /\ idx = 0
    /\ matches = <<>>
    /\ subject = NoSubject
    /\ body = <<>>
    /\ outbox = <<>>
    /\ exc = NoExc
    /\ raised = NoExc

FnInit ==
    /\ RunIdle
    /\ call = "ready"
    /\ price_in \in PriceInputs
    /\ shares_in = None
    /\ result = Returns(0, 0)

CallParsePriceRange ==
    /\ call = "ready"
    /\ result' = parse_price_range(price_in)
    /\ call' = "parse_price_range"
    /\ UNCHANGED <<price_in, shares_in>>
    /\ UNCHANGED runVars

CallComputeOffer ==
    /\ call = "ready"
    /\ \E sh \in SharesInputs :
          /\ shares_in' = sh
          /\ result' = compute_offer(price_in, sh)
    /\ call' = "compute_offer"
    /\ UNCHANGED price_in
    /\ UNCHANGED runVars

FnNext == CallParsePriceRange \/ CallComputeOffer

FnSpec == FnInit /\ [][FnNext]_vars

\* a sequential program keeps executing until it returns or raises, and
\* send_email carries a timeout: the handler always runs to its end
FairSpec == Spec /\ WF_vars(ErrorEmailOk \/ ErrorEmailFail) /\ WF_vars(Reraise)

\* =================================================================== claims

HasDigit(s) == \E i \in 1..Len(s) : IsDigit(s[i])

\* None, or a string without any digit: "", "-", "--", "$", " x", ...
NonNumericInput(v) == v.t = "none" \/ (v.t = "str" /\ ~HasDigit(v.s))

\* C1: parse_price_range never raises, and for every absent, empty or
\* digit-free price input it returns (0.0, 0.0).
C1_NeverRaises ==
    call = "parse_price_range" =>
        /\ result.exc = "none"
        /\ NonNumericInput(price_in) => result = Returns(0, 0)

\* The five clauses of the eligibility filter, as the claim states them.
DateMatches(ipo, day) == Get(ipo, "date", NA) = Str(<<day>>)

StatusAllowed(ipo) ==
    LET st == Get(ipo, "status", NA)
    IN  st.t = "str" /\ Lower(st.s) \in {EXPECTED, PRICED}

ExchangeAllowed(ipo) ==
    LET ex == Get(ipo, "exchange", NA)
    IN  ex.t = "str" /\ (Contains(ex.s, NASDAQ) \/ Contains(ex.s, NYSE))

RequiredPresent(ipo) ==
    /\ Truthy(Get(ipo, "symbol", None))
    /\ ~IsNoneEmptyOrDash(Get(ipo, "price", None))
    /\ ~IsNoneOrEmpty(Get(ipo, "numberOfShares", None))

OfferAboveThreshold(ipo) ==
    LET o == compute_offer(Get(ipo, "price", None),
                           Get(ipo, "numberOfShares", None))
    IN  o.exc = "none" /\ o.high > THRESHOLD_USD

AllFiveClauses(ipo, day) ==
    /\ DateMatches(ipo, day)
    /\ StatusAllowed(ipo)
    /\ ExchangeAllowed(ipo)
    /\ RequiredPresent(ipo)
    /\ OfferAboveThreshold(ipo)

\* C2: each iteration of the loop appends a match entry if and only if the
\* record satisfies all five clauses of the filter.
C2_AdmittedIffFiveClauses ==
    [][(pc = "loop" /\ idx < Len(ipos)) =>
          ((Len(matches') = Len(matches) + 1)
              <=> AllFiveClauses(ipos[idx + 1], today))]_vars

\* a price or share-count field that is text without any number in it
MalformedNumeric(v) == v.t = "str" /\ v.s # <<>> /\ ~HasDigit(v.s)

MalformedRecord(ipo) ==
    \/ MalformedNumeric(Get(ipo, "price", None))
    \/ MalformedNumeric(Get(ipo, "numberOfShares", None))

\* C3: the evaluation of a record whose price or share count is malformed
\* never raises: the loop goes on with the next record.
C3_MalformedRecordNeverRaises ==
    [][(pc = "loop" /\ idx < Len(ipos) /\ MalformedRecord(ipos[idx + 1]))
          => pc' = "loop"]_vars

ErrorAttempts == Len(SelectSeq(outbox, LAMBDA m : m.kind = "error"))
ReportAttempts == Len(SelectSeq(outbox, LAMBDA m : m.kind = "report"))

C4_Safe ==
    /\ pc \in {"reraise", "failed"} /\ raised.at # "config" =>
           /\ ErrorAttempts = 1
           /\ outbox[Len(outbox)].kind = "error"
           /\ exc.at \in {"fetch", "record", "send report"}
    /\ pc = "failed" /\ raised.at # "config" => raised = exc
    /\ pc = "done" => exc = NoExc /\ raised = NoExc /\ ErrorAttempts = 0
    /\ pc = "handler" => ErrorAttempts = 0 /\ exc # NoExc

\* C4: once a step inside the try block has failed, exactly one error
\* notification is attempted, its own failure is swallowed, and the run ends
\* by raising the original failure.
C4_FailureNotifiedThenReraised ==
    /\ []C4_Safe
    /\ [][pc = "handler" => pc' = "reraise" /\ exc' = exc]_vars
    /\ (pc = "handler") ~> (pc = "failed" /\ raised = exc)

\* the error notification failed, was swallowed, and the failed send of the
\* success report is what left run()
C4_Witness ==
    /\ pc = "failed"
    /\ raised = Exc("SMTPException", "send report")
    /\ ErrorAttempts = 1
    /\ ~outbox[Len(outbox)].ok

\* indices of the records of ipos that the filter admits
AdmittedIdx(recs, day) ==
    {i \in 1..Len(recs) : EvalRecord(recs[i], day).kind = "admit"}

\* matches is the list of blocks of all admitted records of ipos, in order
MatchesAreAllAdmitted ==
    LET adm == AdmittedIdx(ipos, today)
    IN  /\ Len(matches) = Cardinality(adm)
        /\ \A j \in adm :
              matches[Cardinality({m \in adm : m <= j})]
                  = EvalRecord(ipos[j], today).entry

\* C5: at most one success report per run, sent only after the whole
\* sequence has been evaluated and built from all admitted records; none
\* when the fetch or a record fails.
C5_OneWholeReport ==
    /\ ReportAttempts <= 1
    /\ pc \in {"config", "fetch", "loop", "send"} => outbox = <<>>
    /\ exc.at \in {"fetch", "record"} => ReportAttempts = 0
    /\ \A i \in 1..Len(outbox) :
          outbox[i].kind = "report" =>
              /\ i = 1
              /\ idx = Len(ipos)
              /\ MatchesAreAllAdmitted
              /\ outbox[i].subject = ReportSubject(today, matches)
              /\ outbox[i].body = ReportBody(matches)

\* two records fetched, both admitted, one report delivered
C5_Witness ==
    /\ pc = "done"
    /\ Len(ipos) = 2
    /\ Len(matches) = 2
    /\ ReportAttempts = 1
    /\ outbox[1].ok

\* C6: the report matches the admitted list: the "No tickers" pair when it
\* is empty; otherwise the count in the subject is the number of admitted
\* records and the body is the header, then one block per admitted record in
\* fetch order with a separator between consecutive blocks only.
C6_ReportMatchesAdmitted ==
    subject # NoSubject =>
        /\ MatchesAreAllAdmitted
        /\ matches = <<>> =>
              /\ subject = [kind |-> "no tickers", date |-> today, n |-> 0]
              /\ body = <<Line("success sentence", NoEntry)>>
        /\ matches # <<>> =>
              /\ subject = [kind |-> "tickers", date |-> today, n |-> Len(matches)]
              /\ Len(body) = 2 * Len(matches)
              /\ body[1] = Line("header", NoEntry)
              /\ \A k \in 1..Len(matches) : body[2 * k] = Line("block", matches[k])
              /\ \A k \in 1..(Len(matches) - 1) :
                    body[2 * k + 1] = Line("separator", NoEntry)

\* two different admitted records, reported in fetch order with one separator
C6_Witness ==
    /\ pc = "done"
    /\ Len(matches) = 2
    /\ matches[1] # matches[2]
    /\ Len(body) = 4
    /\ body[3].kind = "separator"

\* the non-empty fragments between hyphens, currency symbols removed
Fragments(v) == Parts(Remove(Strip(v.s), "$"))

IsNumeric(s) == FloatOfStr(s).ok

\* C7: a pair parsed from two or more numeric fragments has low <= high, and
\* a pair parsed from a single value has low = high.
C7_LowNotAboveHigh ==
    (call = "parse_price_range" /\ price_in.t = "str" /\ result.exc = "none") =>
        LET fr == Fragments(price_in)
        IN  /\ (Len(fr) >= 2 /\ IsNumeric(fr[1]) /\ IsNumeric(fr[2]))
                  => result.low <= result.high
            /\ (Len(fr) = 1 /\ IsNumeric(fr[1])) => result.low = result.high

\* numeric fragments: one or two digits
NumFrags == UNION {[1..k -> {"1", "2"}] : k \in 1..2}
Dollar == {<<>>, <<"$">>}

\* C8: "<a>-<b>" (with or without currency symbols, whatever follows a
\* further hyphen) gives (a, b); "<a>-", "-<b>" and "<v>" give (v, v).
C8_RangeForms ==
    (call = "parse_price_range" /\ price_in.t = "str") =>
        \A a \in NumFrags, b \in NumFrags, da \in Dollar, db \in Dollar :
            LET s == price_in.s
                ab == da \o a \o <<"-">> \o db \o b
            IN  /\ s = ab => result = Returns(DecValue(a), DecValue(b))
                /\ (Len(s) > Len(ab) /\ SubSeq(s, 1, Len(ab) + 1) = ab \o <<"-">>)
                      => result = Returns(DecValue(a), DecValue(b))
                /\ s = da \o a \o <<"-">> => result = Returns(DecValue(a), DecValue(a))
                /\ s = <<"-">> \o db \o b => result = Returns(DecValue(b), DecValue(b))
                /\ s = da \o a => result = Returns(DecValue(a), DecValue(a))

\* "$1-$2" parsed to (1, 2)
C8_Witness ==
    /\ call = "parse_price_range"
    /\ price_in = Str(<<"$", "1", "-", "$", "2">>)
    /\ result = Returns(1, 2)

HintValues == {None, Num(0), Num(400000000), Str(<<"x">>)}

WithHints(recs, h) ==
    [i \in 1..Len(recs) |-> [recs[i] EXCEPT !["totalSharesValue"] = h[i]]]

EraseTotals(ms) == [k \in 1..Len(ms) |-> [ms[k] EXCEPT !.total = NA]]

\* C9: a run over the same sequence with other hint values admits the same
\* records in the same order and reports the same count.
C9_HintNeverFilters ==
    pc = "send" =>
        \A h \in [1..Len(ipos) -> HintValues] :
            LET other == RunLoop(WithHints(ipos, h), today, <<>>)
            IN  /\ other.exc = "none"
                /\ EraseTotals(other.matches) = EraseTotals(matches)
                /\ ReportSubject(today, other.matches) = subject

\* C10: compute_offer never raises; it returns (0.0, 0.0) when the share
\* count is absent or not a number, and otherwise the price bounds of
\* parse_price_range times the share count.
C10_OfferIsProduct ==
    call = "compute_offer" =>
        LET f == PyFloat(shares_in)
            p == parse_price_range(price_in)
        IN  /\ result.exc = "none"
            /\ ~f.ok => result = Returns(0, 0)
            /\ (f.ok /\ p.exc = "none")
                  => result = Returns(p.low * f.val, p.high * f.val)

====
